---- MODULE Spec2Model ----
(***************************************************************************)
(* Order event decoder of the satoru indexer                               *)
(* (src/indexer/src/events/order.rs): Order::from_generic_event,           *)
(* combine_u128, the two selector tables and Order::insert.                *)
(*                                                                         *)
(* Strings are sequences of one-character strings.  Machine integers are   *)
(* kept at their width: a u64 / usize is NumLimbs limbs of 16 bits, least  *)
(* significant first, a u128 is twice that, and every addition and         *)
(* multiplication carries between limbs and reports the carry out of the   *)
(* top limb as an overflow.                                                *)
(***************************************************************************)
EXTENDS Integers, Sequences, FiniteSets, TLC

(***************************************************************************)
(* Option<T>: None is the empty tuple, Some(v) the one-element tuple.      *)
(***************************************************************************)
None == <<>>

Some(v) == <<v>>

IsSome(o) == Len(o) = 1

Unwrap(o) == o[1]

unwrap_or(o, d) == IF IsSome(o) THEN o[1] ELSE d

Min(a, b) == IF a < b THEN a ELSE b

Max(a, b) == IF a < b THEN b ELSE a

(***************************************************************************)
(* Machine integers.                                                       *)
(***************************************************************************)
U64_BITS == 64

LimbBase == 256 * 256

NumLimbs == U64_BITS \div 16

Limbs(n) == [j \in 1..n |-> 0]

\* A small natural number (below LimbBase) as an n-limb integer.
FromNat(k, n) == [j \in 1..n |-> IF j = 1 THEN k ELSE 0]

\* Whether an n-limb integer is below the small natural number k.
LessThanNat(x, k) == x[1] < k /\ \A j \in 2..Len(x) : x[j] = 0

\* The value of an integer known to be below LimbBase.
ToNat(x) == x[1]

\* The carry into limb j+1 of acc * m + d  (m, d below LimbBase).
RECURSIVE MulAddCarry(_, _, _, _)
MulAddCarry(acc, m, d, j) ==
    IF j = 0 THEN d
    ELSE (acc[j] * m + MulAddCarry(acc, m, d, j - 1)) \div LimbBase

\* checked_mul(m) followed by checked_add(d): the wrapped value and whether
\* the exact value does not fit.
MulAdd(acc, m, d) ==
    [val      |-> [j \in 1..Len(acc) |->
                     (acc[j] * m + MulAddCarry(acc, m, d, j - 1)) % LimbBase],
     overflow |-> MulAddCarry(acc, m, d, Len(acc)) > 0]

\* The carry into limb j+1 of a + b.
RECURSIVE AddCarry(_, _, _)
AddCarry(a, b, j) ==
    IF j = 0 THEN 0
    ELSE (a[j] + b[j] + AddCarry(a, b, j - 1)) \div LimbBase

\* a + b at the width of a: the wrapped value and whether it overflowed.
Add(a, b) ==
    [val      |-> [j \in 1..Len(a) |->
                     (a[j] + b[j] + AddCarry(a, b, j - 1)) % LimbBase],
     overflow |-> AddCarry(a, b, Len(a)) > 0]

(***************************************************************************)
(* char::to_digit(radix)                                                   *)
(***************************************************************************)
DigitChars == <<"0", "1", "2", "3", "4", "5", "6", "7", "8", "9",
                "a", "b", "c", "d", "e", "f">>

UpperChars == <<"0", "1", "2", "3", "4", "5", "6", "7", "8", "9",
                "A", "B", "C", "D", "E", "F">>

DigitValue ==
    [c \in {DigitChars[d] : d \in 1..16} \cup {UpperChars[d] : d \in 1..16} |->
        (CHOOSE d \in 1..16 : DigitChars[d] = c \/ UpperChars[d] = c) - 1]

to_digit(c, radix) ==
    IF c \in DOMAIN DigitValue /\ DigitValue[c] < radix
    THEN Some(DigitValue[c]) ELSE None

(***************************************************************************)
(* u64::from_str_radix / usize::from_str (radix 10): Option of the value.  *)
(***************************************************************************)
RECURSIVE parse_digits(_, _, _, _)
parse_digits(s, i, radix, acc) ==
    IF i > Len(s) THEN Some(acc)
    ELSE LET d == to_digit(s[i], radix)
         IN  IF ~IsSome(d) THEN None
             ELSE LET r == MulAdd(acc, radix, Unwrap(d))
                  IN  IF r.overflow THEN None
                      ELSE parse_digits(s, i + 1, radix, r.val)

u64_from_str_radix(s, radix) ==
    IF Len(s) = 0 THEN None
    ELSE IF Len(s) = 1 /\ s[1] \in {"+", "-"} THEN None
    ELSE IF s[1] = "+" THEN parse_digits(Tail(s), 1, radix, Limbs(NumLimbs))
    ELSE parse_digits(s, 1, radix, Limbs(NumLimbs))

\* v.parse::<usize>() on a 64-bit target.
parse_usize(s) == u64_from_str_radix(s, 10)

(***************************************************************************)
(* i64::from_str_radix: a sign and a magnitude; the positive range ends at *)
(* 2^63 - 1, the negative one at -2^63.  Zero carries no sign.             *)
(***************************************************************************)
I63_LIMIT == LimbBase \div 2

i64_from_str_radix(s, radix) ==
    IF Len(s) = 0 THEN None
    ELSE IF Len(s) = 1 /\ s[1] \in {"+", "-"} THEN None
    ELSE LET neg == s[1] = "-"
             mag == parse_digits(IF s[1] \in {"+", "-"} THEN Tail(s) ELSE s,
                                 1, radix, Limbs(NumLimbs))
         IN  IF ~IsSome(mag) THEN None
             ELSE LET m == Unwrap(mag)
                  IN  IF m[NumLimbs] < I63_LIMIT
                      THEN Some([neg |-> neg /\ m # Limbs(NumLimbs), mag |-> m])
                      ELSE IF neg /\ m = [j \in 1..NumLimbs |->
                                            IF j = NumLimbs THEN I63_LIMIT ELSE 0]
                      THEN Some([neg |-> TRUE, mag |-> m])
                      ELSE None

(***************************************************************************)
(* u128::to_string and BigDecimal::from_str                                *)
(***************************************************************************)
\* The remainder of (limbs j..Len(x) of x) divided by 10.
RECURSIVE Rem10(_, _)
Rem10(x, j) ==
    IF j > Len(x) THEN 0 ELSE (Rem10(x, j + 1) * LimbBase + x[j]) % 10

Div10(x) == [j \in 1..Len(x) |-> (Rem10(x, j + 1) * LimbBase + x[j]) \div 10]

RECURSIVE decimal_digits(_)
decimal_digits(x) ==
    IF x = Limbs(Len(x)) THEN <<>>
    ELSE Append(decimal_digits(Div10(x)), DigitChars[Rem10(x, 1) + 1])

to_string(x) == IF x = Limbs(Len(x)) THEN <<"0">> ELSE decimal_digits(x)

RECURSIVE strip_zeros(_)
strip_zeros(s) ==
    IF Len(s) > 1 /\ s[1] = "0" THEN strip_zeros(Tail(s)) ELSE s

\* BigDecimal::from_str on a plain digit string: the integer it denotes, kept
\* as its canonical decimal digits (scale 0); Err (None) on anything else.
BigDecimal_from_str(s) ==
    IF Len(s) > 0 /\ \A i \in 1..Len(s) : IsSome(to_digit(s[i], 10))
    THEN Some(strip_zeros(s))
    ELSE None

(***************************************************************************)
(* Selector tables: OrderType::from_str, DecreasePositionSwapType::from_str *)
(* (Result<_, ()> followed by .ok(), so None stands for Err(())).          *)
(***************************************************************************)
WORD_CHARS == 64

\* The 64-character literal made of zeros and one last character.
Selector(last) == [i \in 1..WORD_CHARS |-> IF i = WORD_CHARS THEN last ELSE "0"]

\* Faulty variant: the last selector resolves to the variant before it
OrderType_from_str_shared_variant(input) ==
    CASE input = Selector("0") -> Some("MarketSwap")
      [] input = Selector("1") -> Some("LimitSwap")
      [] input = Selector("2") -> Some("MarketIncrease")
      [] input = Selector("3") -> Some("LimitIncrease")
      [] input = Selector("4") -> Some("MarketDecrease")
      [] input = Selector("5") -> Some("LimitDecrease")
      [] input = Selector("6") -> Some("StopLossDecrease")
      [] input = Selector("7") -> Some("StopLossDecrease")
      [] OTHER -> None

\* lines 48-64
OrderType_from_str(input) ==
    CASE input = Selector("0") -> Some("MarketSwap")
      [] input = Selector("1") -> Some("LimitSwap")
      [] input = Selector("2") -> Some("MarketIncrease")
      [] input = Selector("3") -> Some("LimitIncrease")
      [] input = Selector("4") -> Some("MarketDecrease")
      [] input = Selector("5") -> Some("LimitDecrease")
      [] input = Selector("6") -> Some("StopLossDecrease")
      [] input = Selector("7") -> Some("Liquidation")
      [] OTHER -> None

\* lines 73-84
DecreasePositionSwapType_from_str(input) ==
    CASE input = Selector("0") -> Some("NoSwap")
      [] input = Selector("1") -> Some("SwapPnlTokenToCollateralToken")
      [] input = Selector("2") -> Some("SwapCollateralTokenToPnlToken")
      [] OTHER -> None


(***************************************************************************)
(* Evaluation helpers: Bind(v, F) is F(v) with v computed once, Tuple(f)   *)
(* is the sequence f with every element computed once.                     *)
(***************************************************************************)
Bind(v, F(_)) == CHOOSE r \in {F(x) : x \in {v}} : TRUE

Tuple(f) == SubSeq(f, 1, Len(f))

(***************************************************************************)
(* str::split(',') and [String]::join(",")                                 *)
(***************************************************************************)
\* The positions of the commas of s, each with its rank from the left.
ranked_commas(s) ==
    Bind({i \in 1..Len(s) : s[i] = ","},
         LAMBDA commas : {<<Cardinality({j \in commas : j <= i}), i>> : i \in commas})

\* The pieces between consecutive commas: one more than there are commas, so
\* the empty string splits into one empty piece.
split(s) ==
    Bind(ranked_commas(s),
         LAMBDA commas :
            LET n      == Cardinality(commas) + 1
                at(k)  == (CHOOSE p \in commas : p[1] = k)[2]
                lo(k)  == IF k = 1 THEN 1 ELSE at(k - 1) + 1
                hi(k)  == IF k = n THEN Len(s) ELSE at(k) - 1
            IN  Tuple([k \in 1..n |-> SubSeq(s, lo(k), hi(k))]))

RECURSIVE join(_)
join(words) ==
    IF Len(words) = 0 THEN <<>>
    ELSE IF Len(words) = 1 THEN words[1]
    ELSE join(SubSeq(words, 1, Len(words) - 1)) \o <<",">> \o words[Len(words)]

(***************************************************************************)
(* The words of the model's raw events, and the conversions of the decoder *)
(* tabulated over them (each table is the operator above it, computed once *)
(* for every word).                                                        *)
(***************************************************************************)
ZeroPad(tail) == [i \in 1..(WORD_CHARS - Len(tail)) |-> "0"] \o tail

Repeat(c, n) == [i \in 1..n |-> c]

\* 2^64 - 1, 2^64 - 11, 2^64 - 28 and 2^64 in decimal digits
UsizeMaxDigits ==
    <<"1","8","4","4","6","7","4","4","0","7","3","7","0","9","5","5","1","6","1","5">>

UsizeNearDigits == SubSeq(UsizeMaxDigits, 1, 18) \o <<"0", "5">>

UsizeFarDigits == SubSeq(UsizeMaxDigits, 1, 17) \o <<"5", "8", "8">>

UsizeOverDigits == SubSeq(UsizeMaxDigits, 1, 19) \o <<"6">>

\* The words tried at index 10 (the swap_path length word).
LenWords ==
    <<Selector("0"), Selector("2"), Selector("a"), ZeroPad(<<"1", "0">>),
      ZeroPad(UsizeMaxDigits), ZeroPad(UsizeNearDigits), ZeroPad(UsizeFarDigits),
      ZeroPad(UsizeOverDigits), ZeroPad(<<"x", "y">>), <<"3">>>>

\* The words the other indices cycle through.
FillWords ==
    <<Selector("1"), Selector("0"), Selector("2"), Selector("3"), Selector("4"),
      Selector("5"), Selector("6"), Selector("7"), Selector("8"),
      ZeroPad(Repeat("f", 16)), ZeroPad(Repeat("f", 16)),
      ZeroPad(<<"1">> \o Repeat("0", 16)), ZeroPad(<<"8">> \o Repeat("0", 15)),
      ZeroPad(<<"g", "h">>), <<"7">>, ZeroPad(<<"F", "f">>), <<"+", "1">>>>

Words ==
    {LenWords[i] : i \in 1..Len(LenWords)} \cup {FillWords[i] : i \in 1..Len(FillWords)}
    \cup {<<>>}

usize_of == [w \in Words |-> parse_usize(w)]

u64_hex_of == [w \in Words |-> u64_from_str_radix(w, 16)]

i64_hex_of == [w \in Words |-> i64_from_str_radix(w, 16)]

order_type_of == [w \in Words |-> OrderType_from_str(w)]

swap_type_of == [w \in Words |-> DecreasePositionSwapType_from_str(w)]

(***************************************************************************)
(* combine_u128                                                            *)
(***************************************************************************)
\* x as u128
as_u128(x) == [j \in 1..(2 * NumLimbs) |-> IF j <= Len(x) THEN x[j] ELSE 0]

\* x << 64 at the width of x (bits shifted out are lost)
shl64(x) == [j \in 1..Len(x) |-> IF j <= NumLimbs THEN 0 ELSE x[j - NumLimbs]]

\* high, low : Option<&Option<String>>.  The result carries whether the
\* addition overflowed or the unwrap() of BigDecimal::from_str failed.
combine_u128(high, low) ==
    IF IsSome(high) /\ IsSome(low) /\ IsSome(Unwrap(high)) /\ IsSome(Unwrap(low))
    THEN LET h == u64_hex_of[Unwrap(Unwrap(high))]
             l == u64_hex_of[Unwrap(Unwrap(low))]
         IN  IF IsSome(h) /\ IsSome(l)
             THEN Bind(Add(Tuple(shl64(as_u128(Unwrap(h)))), Tuple(as_u128(Unwrap(l)))),
                       LAMBDA combined :
                          Bind(BigDecimal_from_str(to_string(Tuple(combined.val))),
                               LAMBDA dec :
                                  [value |-> dec,
                                   fault |-> combined.overflow \/ ~IsSome(dec)]))
             ELSE [value |-> None, fault |-> FALSE]
    ELSE [value |-> None, fault |-> FALSE]

\* What data_parts.get(..) can return in the model.
WordRefs == {None} \cup {Some(Some(w)) : w \in Words}

combine_u128_of == [high \in WordRefs, low \in WordRefs |-> combine_u128(high, low)]

(***************************************************************************)
(* Order::from_generic_event                                               *)
(***************************************************************************)
\* data_parts.get(idx) for a usize idx: Option<&Option<String>>
get(data_parts, idx) ==
    IF LessThanNat(idx, Len(data_parts))
    THEN Some(data_parts[ToNat(idx) + 1])
    ELSE None

\* data_parts.get(idx).cloned().unwrap_or(None)
get_string(data_parts, idx) == unwrap_or(get(data_parts, idx), None)

\* line 93: every piece of data, wrapped in Some
data_parts_of(data) ==
    Bind(split(data), LAMBDA parts : Tuple([i \in 1..Len(parts) |-> Some(parts[i])]))

\* Faulty variant: the fallback length is one instead of zero
swap_path_len_of_fallback_one(data_parts) ==
    LET w == get(data_parts, FromNat(10, NumLimbs))
    IN  IF IsSome(w) /\ IsSome(Unwrap(w))
        THEN unwrap_or(usize_of[Unwrap(Unwrap(w))], FromNat(1, NumLimbs))
        ELSE FromNat(1, NumLimbs)

\* line 95: the declared length of swap_path
swap_path_len_of(data_parts) ==
    LET w == get(data_parts, FromNat(10, NumLimbs))
    IN  IF IsSome(w) /\ IsSome(Unwrap(w))
        THEN unwrap_or(usize_of[Unwrap(Unwrap(w))], Limbs(NumLimbs))
        ELSE Limbs(NumLimbs)

\* k + swap_path_len in usize arithmetic: the wrapped sum and whether it
\* overflowed
suffix_index(k, swap_path_len) == Add(FromNat(k, NumLimbs), swap_path_len)

\* line 96: (0..swap_path_len).filter_map(|i| data_parts.get(11 + i)...).
\* The iterations that yield a word are those whose index 11 + i is below
\* the number of words: first the i below Len(data_parts) - 11, and then,
\* when 11 + i passes the top of usize and the build wraps, the last i of the
\* range, whose index comes back to 0, 1, ...  The other iterations yield
\* nothing and are not enumerated.
swap_path_of(data_parts, swap_path_len) ==
    LET n       == Len(data_parts)
        room    == Max(0, n - 11)
        direct  == IF LessThanNat(swap_path_len, room)
                   THEN ToNat(swap_path_len) ELSE room
        last    == suffix_index(10, swap_path_len)
        wrapped == IF last.overflow
                   THEN Min(ToNat(last.val) + 1, n) ELSE 0
    IN  [words    |-> [i \in 1..direct |-> Unwrap(data_parts[11 + i])]
                      \o [i \in 1..wrapped |-> Unwrap(data_parts[i])],
         reads    |-> {11 + i : i \in 0..(direct - 1)} \cup 0..(wrapped - 1),
         overflow |-> last.overflow]

\* Faulty variant: a word that is neither selector decodes to true
bool_of_word_other_true(v) ==
    CASE v = Selector("0") -> FALSE
      [] v = Selector("1") -> TRUE
      [] OTHER -> TRUE

\* lines 120-124 and 125-129: the match on the word of a boolean field
bool_of_word(v) ==
    CASE v = Selector("0") -> FALSE
      [] v = Selector("1") -> TRUE
      [] OTHER -> FALSE

bool_of == [w \in Words |-> bool_of_word(w)]

\* The base index of every field after swap_path.
SuffixBase == 11..27

PairBase == {11, 13, 15, 17, 19, 21, 23}

\* lines 98-130: the record, given the words, the declared length, the
\* swap_path read and the index at[k] = k + swap_path_len of every suffix word
order_of(event, data_parts, sp, at) ==
    LET fixed(k)  == FromNat(k, NumLimbs)
        pair(k)   == combine_u128_of[get(data_parts, at[k].val),
                                     get(data_parts, at[k + 1].val)]
        word(k)   == get_string(data_parts, at[k].val)
    IN  [block_number      |-> event.block_number,
         timestamp         |-> event.timestamp,
         transaction_hash  |-> event.transaction_hash,
         key               |-> get_string(data_parts, fixed(0)),
         order_type        |-> IF IsSome(get_string(data_parts, fixed(2)))
                               THEN order_type_of[Unwrap(get_string(data_parts, fixed(2)))]
                               ELSE None,
         decrease_position_swap_type |->
                               IF IsSome(get_string(data_parts, fixed(3)))
                               THEN swap_type_of[Unwrap(get_string(data_parts, fixed(3)))]
                               ELSE None,
         account           |-> get_string(data_parts, fixed(4)),
         receiver          |-> get_string(data_parts, fixed(5)),
         callback_contract |-> get_string(data_parts, fixed(6)),
         ui_fee_receiver   |-> get_string(data_parts, fixed(7)),
         market            |-> get_string(data_parts, fixed(8)),
         initial_collateral_token |-> get_string(data_parts, fixed(9)),
         swap_path         |-> Some(sp.words),
         size_delta_usd    |-> pair(11).value,
         initial_collateral_delta_amount |-> pair(13).value,
         trigger_price     |-> pair(15).value,
         acceptable_price  |-> pair(17).value,
         execution_fee     |-> pair(19).value,
         callback_gas_limit |-> pair(21).value,
         min_output_amount |-> pair(23).value,
         updated_at_block  |-> IF IsSome(word(25)) THEN i64_hex_of[Unwrap(word(25))]
                               ELSE None,
         is_long           |-> IF IsSome(word(26)) THEN Some(bool_of[Unwrap(word(26))])
                               ELSE None,
         is_frozen         |-> IF IsSome(word(27)) THEN Some(bool_of[Unwrap(word(27))])
                               ELSE None]

\* The outcome of one decode, given the words and the declared length: whether
\* it panicked (no record is returned then), whether an index computation
\* overflowed, the word indices at which a word was read, and the record.
\* overflow_checks is the build: with them an overflowing index computation
\* panics, without them it wraps.
decode_parts(event, data_parts, swap_path_len, overflow_checks) ==
    Bind(<<swap_path_of(data_parts, swap_path_len),
           Tuple([k \in 1..28 |-> suffix_index(k, swap_path_len)])>>,
         LAMBDA c :
            LET sp         == c[1]
                at         == c[2]
                overflowed == sp.overflow \/ \E k \in SuffixBase : at[k].overflow
                fault      == \E k \in PairBase :
                                 combine_u128_of[get(data_parts, at[k].val),
                                                 get(data_parts, at[k + 1].val)].fault
                panicked   == (overflow_checks /\ overflowed) \/ fault
            IN  [panicked   |-> panicked,
                 overflowed |-> overflowed,
                 len        |-> swap_path_len,
                 reads      |-> {i \in 0..10 : i # 1 /\ i < Len(data_parts)}
                                \cup sp.reads
                                \cup {ToNat(at[k].val) : k \in {j \in SuffixBase :
                                         LessThanNat(at[j].val, Len(data_parts))}},
                 order      |-> IF panicked THEN None
                                ELSE Some(order_of(event, data_parts, sp, at))])

from_generic_event(event, overflow_checks) ==
    Bind(data_parts_of(event.data),
         LAMBDA data_parts :
            Bind(swap_path_len_of(data_parts),
                 LAMBDA swap_path_len :
                    decode_parts(event, data_parts, swap_path_len, overflow_checks)))

(***************************************************************************)
(* Order::insert: one statement bound to the 23 columns, executed on the   *)
(* pool; `?` hands the pool's error to the caller.  pool_reply is what the *)
(* pool answers to an execute.  The result lists the statements executed   *)
(* and the value returned to the caller.                                   *)
(***************************************************************************)
\* self.swap_path.as_ref().map(|sp| sp.join(","))
map_join(swap_path) == IF IsSome(swap_path) THEN Some(join(Unwrap(swap_path))) ELSE None

\* the bound parameters $1 .. $23
insert_row(self) == [self EXCEPT !.swap_path = map_join(self.swap_path)]

\* Faulty variant: a rejected statement is executed a second time
insert_with_retry(self, pool_reply) ==
    [statements |-> IF pool_reply = "ok"
                    THEN <<[row |-> insert_row(self), reply |-> pool_reply]>>
                    ELSE <<[row |-> insert_row(self), reply |-> pool_reply],
                           [row |-> insert_row(self), reply |-> pool_reply]>>,
     returned   |-> IF pool_reply = "ok" THEN [ok |-> TRUE, err |-> "none"]
                    ELSE [ok |-> FALSE, err |-> pool_reply]]

\* lines 133-173
insert(self, pool_reply) ==
    [statements |-> <<[row |-> insert_row(self), reply |-> pool_reply]>>,
     returned   |-> IF pool_reply = "ok" THEN [ok |-> TRUE, err |-> "none"]
                    ELSE [ok |-> FALSE, err |-> pool_reply]]

(***************************************************************************)
(* The pipeline around one raw event: it is received, decoded once, and    *)
(* the record is handed to the sink once.                                  *)
(***************************************************************************)
MaxWords == 38

\* The n words of a raw event: the length word lw at index 10, and at every
\* other index i the fill word number i + shift.
WordsOf(n, lw, shift) ==
    [i \in 1..n |-> IF i = 11 THEN lw
                    ELSE FillWords[((i - 1 + shift) % Len(FillWords)) + 1]]

\* What the sink can answer to a statement.
SinkReplies == {"ok", "unique_violation", "io_error"}

VARIABLES event, pc, outcome, executed, returned

vars == <<event, pc, outcome, executed, returned>>

NoOutcome ==
    [panicked |-> FALSE, overflowed |-> FALSE, len |-> Limbs(NumLimbs),
     reads |-> {}, order |-> None]

NotReturned == [ok |-> FALSE, err |-> "not called"]

Init ==
    /\ \E n \in 0..MaxWords, l \in 1..Len(LenWords), shift \in 0..(Len(FillWords) - 1) :
          event = [block_number     |-> 64901,
                   timestamp        |-> Some(<<"1", "7">>),
                   transaction_hash |-> <<"0", "x", "a", "b">>,
                   data             |-> join(Tuple(WordsOf(n, LenWords[l], shift)))]
    /\ pc = "received"
    /\ outcome = NoOutcome
    /\ executed = <<>>
    /\ returned = NotReturned

\* One call of Order::from_generic_event.
Decode ==
    /\ pc = "received"
    /\ \E overflow_checks \in BOOLEAN :
          \E r \in {from_generic_event(event, overflow_checks)} :
             /\ outcome' = r
             /\ pc' = IF r.panicked THEN "panicked" ELSE "decoded"
    /\ UNCHANGED <<event, executed, returned>>

\* One call of Order::insert on the decoded record.
Insert ==
    /\ pc = "decoded"
    /\ \E reply \in SinkReplies :
          \E r \in {insert(Unwrap(outcome.order), reply)} :
             /\ executed' = executed \o r.statements
             /\ returned' = r.returned
    /\ pc' = "inserted"
    /\ UNCHANGED <<event, outcome>>

Next == Decode \/ Insert

Spec == Init /\ [][Next]_vars

(***************************************************************************)
(* Vocabulary of the properties.  w is the sequence of words of a raw      *)
(* event (index i of the source is w[i + 1]) and o the record decoded.     *)
(***************************************************************************)
Decoded == pc \in {"decoded", "inserted"}

Record == Unwrap(outcome.order)

\* What data_parts.get(i) holds for a natural number i.
WordAt(w, i) == IF i < Len(w) THEN Some(Some(w[i + 1])) ELSE None

\* The same for a usize index.
WordAtIndex(w, idx) == IF LessThanNat(idx, Len(w)) THEN WordAt(w, ToNat(idx)) ELSE None

StringOf(ref) == IF IsSome(ref) THEN Unwrap(ref) ELSE None

PairField ==
    [k \in PairBase |->
        CASE k = 11 -> "size_delta_usd"
          [] k = 13 -> "initial_collateral_delta_amount"
          [] k = 15 -> "trigger_price"
          [] k = 17 -> "acceptable_price"
          [] k = 19 -> "execution_fee"
          [] k = 21 -> "callback_gas_limit"
          [] k = 23 -> "min_output_amount"]

\* The suffix fields of record o are the decodes of the words found at the
\* indices idx[k], k in SuffixBase (idx[k] a usize).
SuffixReadAt(o, w, idx) ==
    /\ \A k \in PairBase :
          o[PairField[k]] = combine_u128_of[WordAtIndex(w, idx[k]),
                                            WordAtIndex(w, idx[k + 1])].value
    /\ o.updated_at_block = IF IsSome(WordAtIndex(w, idx[25]))
                            THEN i64_hex_of[Unwrap(Unwrap(WordAtIndex(w, idx[25])))]
                            ELSE None
    /\ o.is_long = IF IsSome(WordAtIndex(w, idx[26]))
                   THEN Some(bool_of[Unwrap(Unwrap(WordAtIndex(w, idx[26])))])
                   ELSE None
    /\ o.is_frozen = IF IsSome(WordAtIndex(w, idx[27]))
                     THEN Some(bool_of[Unwrap(Unwrap(WordAtIndex(w, idx[27])))])
                     ELSE None

\* Every suffix field whose index, base + shift, has no word is absent
\* (a pair when either of its two words is missing).
SuffixAbsentBeyond(o, n, shift) ==
    /\ \A k \in PairBase : k + 1 + shift >= n => o[PairField[k]] = None
    /\ 25 + shift >= n => o.updated_at_block = None
    /\ 26 + shift >= n => o.is_long = None
    /\ 27 + shift >= n => o.is_frozen = None

BaseIndex == [k \in 1..28 |-> FromNat(k, NumLimbs)]

(***************************************************************************)
(* C1.  Order::from_generic_event is total: whatever the words of data,    *)
(* and whatever the length word at index 10, the decode returns a record,  *)
(* does not panic and overflows no index computation.                      *)
(***************************************************************************)
C1_DecodeIsTotal ==
    pc # "received" => ~outcome.panicked /\ ~outcome.overflowed /\ IsSome(outcome.order)

(***************************************************************************)
(* C3.  When the word at index 10 is missing or does not parse as an       *)
(* integer, the length is taken as zero and the decode goes on: swap_path  *)
(* is the empty array, every suffix field is read at its base index 11..27 *)
(* and a suffix field whose index has no word is absent.                   *)
(***************************************************************************)
LengthWordUnusable(w) == Len(w) <= 10 \/ ~IsSome(usize_of[w[11]])

C3_LengthWordFallback ==
    pc = "decoded" =>
       \A w \in {split(event.data)} :
          LengthWordUnusable(w) =>
             /\ Record.swap_path = Some(<<>>)
             /\ SuffixReadAt(Record, w, BaseIndex)
             /\ SuffixAbsentBeyond(Record, Len(w), 0)

\* A length word that does not parse, in an event long enough for the first
\* suffix fields and too short for the last ones.
C3_Witness ==
    /\ pc = "decoded"
    /\ \E w \in {split(event.data)} :
          /\ Len(w) = 26
          /\ ~IsSome(usize_of[w[11]])
          /\ Record.swap_path = Some(<<>>)
          /\ IsSome(Record.size_delta_usd)
          /\ Record.is_long = None

\* A declared length L (a usize) as a natural number, capped at the number n
\* of words: for index arithmetic against n every L >= n behaves like n.
Capped(L, n) == IF LessThanNat(L, n) THEN ToNat(L) ELSE n

\* The exact (unbounded) index k + shift of every suffix word.
ShiftedIndex(shift) == [k \in 1..28 |-> FromNat(k + shift, NumLimbs)]

\* The words of w at indices first .. last.
WordsAt(w, first, last) ==
    IF last < first THEN <<>> ELSE SubSeq(w, first + 1, last + 1)

\* Every prefix field whose index has no word is absent.
PrefixAbsentBeyond(o, n) ==
    /\ 0 >= n => o.key = None
    /\ 2 >= n => o.order_type = None
    /\ 3 >= n => o.decrease_position_swap_type = None
    /\ 4 >= n => o.account = None
    /\ 5 >= n => o.receiver = None
    /\ 6 >= n => o.callback_contract = None
    /\ 7 >= n => o.ui_fee_receiver = None
    /\ 8 >= n => o.market = None
    /\ 9 >= n => o.initial_collateral_token = None

(***************************************************************************)
(* C2.  Offset correctness: when the word at index 10 is a 64-character    *)
(* hexadecimal word encoding n and data holds at least 28 + n words,       *)
(* swap_path is exactly the n words at indices 11 .. 10 + n and every      *)
(* field after the array is read at its base index plus n.                 *)
(***************************************************************************)
C2_OffsetCorrectness ==
    pc = "decoded" =>
       \A w \in {split(event.data)} :
          (/\ Len(w) > 10
           /\ Len(w[11]) = WORD_CHARS
           /\ IsSome(u64_hex_of[w[11]])
           /\ LessThanNat(Unwrap(u64_hex_of[w[11]]), Len(w))
           /\ Len(w) >= 28 + ToNat(Unwrap(u64_hex_of[w[11]])))
          => \A n \in {ToNat(Unwrap(u64_hex_of[w[11]]))} :
                /\ Record.swap_path = Some(WordsAt(w, 11, 10 + n))
                /\ SuffixReadAt(Record, w, ShiftedIndex(n))

(***************************************************************************)
(* C4.  Word-count invariant: a decode with declared length L reads no     *)
(* word at an index >= 28 + L; and when data holds fewer words, every      *)
(* field whose word index is at or beyond the number of words is absent (a *)
(* pair when either of its two words is missing), without a panic.         *)
(***************************************************************************)
C4_WordCount ==
    pc # "received" =>
       /\ ~outcome.panicked
       /\ \A w \in {split(event.data)} :
             /\ \A i \in outcome.reads : i < 28 + Capped(outcome.len, Len(w))
             /\ PrefixAbsentBeyond(Record, Len(w))
             /\ SuffixAbsentBeyond(Record, Len(w), Capped(outcome.len, Len(w)))

(***************************************************************************)
(* C10.  In every record returned, swap_path is present and holds exactly  *)
(* the words at indices 11 .. 11 + L - 1 that exist, in order (so          *)
(* min(L, max(0, N - 11)) of them, never more than L), and the suffix      *)
(* fields are read at their base index plus the declared L.                *)
(***************************************************************************)
C10_SwapPathShape ==
    pc = "decoded" =>
       \A w \in {split(event.data)} :
          \A L \in {Capped(outcome.len, Len(w))} :
             /\ IsSome(Record.swap_path)
             /\ Unwrap(Record.swap_path) = WordsAt(w, 11, Min(10 + L, Len(w) - 1))
             /\ Len(Unwrap(Record.swap_path)) = Min(L, Max(0, Len(w) - 11))
             /\ SuffixReadAt(Record, w, ShiftedIndex(L))

(***************************************************************************)
(* The value a pair of words denotes, computed from the positions of their *)
(* hexadecimal digits.                                                     *)
(***************************************************************************)
\* The hexadecimal digit p places from the right end of s.
Nibble(s, p) == IF p <= Len(s) THEN DigitValue[s[Len(s) + 1 - p]] ELSE 0

\* s is a hexadecimal integer below 2^64: hexadecimal digits only, and only
\* zeros to the left of the last 16.
IsHexU64(s) ==
    /\ Len(s) > 0
    /\ \A i \in 1..Len(s) : s[i] \in DOMAIN DigitValue
    /\ \A i \in 1..(Len(s) - 16) : s[i] = "0"

\* The 16 bits number j (from the least significant) of the value of s.
HexLimb(s, j) ==
    Nibble(s, 4 * j - 3) + 16 * Nibble(s, 4 * j - 2)
       + 256 * Nibble(s, 4 * j - 1) + 4096 * Nibble(s, 4 * j)

\* (high << 64) + low as an exact 128-bit number.
ShiftedSum(high, low) ==
    [j \in 1..(2 * NumLimbs) |->
        IF j <= NumLimbs THEN HexLimb(low, j) ELSE HexLimb(high, j - NumLimbs)]

UsableWord(ref) == IsSome(ref) /\ IsSome(Unwrap(ref)) /\ IsHexU64(Unwrap(Unwrap(ref)))

\* For every pair of words: combine_u128 is absent when a word is missing or
\* is not a hexadecimal integer below 2^64; otherwise its decimal digits
\* denote (high << 64) + low, a number below 2^128; nothing overflows; and
\* high = 1, low = 0 gives 2^64.
CombineMatches ==
    [high \in WordRefs, low \in WordRefs |->
        LET r == combine_u128_of[high, low]
        IN  /\ ~r.fault
            /\ IF UsableWord(high) /\ UsableWord(low)
               THEN /\ IsSome(r.value)
                    /\ parse_digits(Unwrap(r.value), 1, 10, Limbs(2 * NumLimbs))
                          = Some(ShiftedSum(Unwrap(Unwrap(high)), Unwrap(Unwrap(low))))
               ELSE r.value = None
            /\ (high = Some(Some(Selector("1"))) /\ low = Some(Some(Selector("0"))))
                  => r.value = Some(UsizeOverDigits)]

(***************************************************************************)
(* C5.  128-bit reconstruction: every paired field of a decoded record is  *)
(* (high << 64) + low, high being the word at the lower index and low the  *)
(* next one, each a 64-bit unsigned hexadecimal integer; it is absent when *)
(* either word is missing or is not such an integer (non-hex characters or *)
(* a value >= 2^64); nothing wraps or overflows, high = 1, low = 0 gives   *)
(* 2^64 and every result is below 2^128.                                   *)
(***************************************************************************)
C5_Reconstruction ==
    (pc = "decoded" /\ ~outcome.overflowed) =>
       \A w \in {split(event.data)} :
          \A k \in PairBase :
             \A high \in {WordAtIndex(w, suffix_index(k, outcome.len).val)},
                low \in {WordAtIndex(w, suffix_index(k + 1, outcome.len).val)} :
                /\ Record[PairField[k]] = combine_u128_of[high, low].value
                /\ CombineMatches[high, low]

(***************************************************************************)
(* The selector tables as the documentation lists them.                    *)
(***************************************************************************)
OrderTypeVariants ==
    <<"MarketSwap", "LimitSwap", "MarketIncrease", "LimitIncrease",
      "MarketDecrease", "LimitDecrease", "StopLossDecrease", "Liquidation">>

SwapTypeVariants ==
    <<"NoSwap", "SwapPnlTokenToCollateralToken", "SwapCollateralTokenToPnlToken">>

\* The number a selector word ends with when the rest of the word is zeros.
IsSelectorWord(v) ==
    /\ Len(v) = WORD_CHARS
    /\ \A i \in 1..(WORD_CHARS - 1) : v[i] = "0"
    /\ v[WORD_CHARS] \in {DigitChars[d] : d \in 1..10}

VariantOf(v, variants) ==
    IF IsSelectorWord(v) /\ DigitValue[v[WORD_CHARS]] < Len(variants)
    THEN Some(variants[DigitValue[v[WORD_CHARS]] + 1])
    ELSE None

\* No two words resolve to the same variant, and every variant has a word.
SelectorsOneToOne ==
    /\ \A a, b \in Words :
          /\ (IsSome(order_type_of[a]) /\ order_type_of[a] = order_type_of[b]) => a = b
          /\ (IsSome(swap_type_of[a]) /\ swap_type_of[a] = swap_type_of[b]) => a = b
    /\ \A i \in 1..Len(OrderTypeVariants) :
          \E a \in Words : order_type_of[a] = Some(OrderTypeVariants[i])
    /\ \A i \in 1..Len(SwapTypeVariants) :
          \E a \in Words : swap_type_of[a] = Some(SwapTypeVariants[i])

(***************************************************************************)
(* C6.  Selector resolution: the word at index 2 resolves to the order     *)
(* type its selector names (...0000 to ...0007: MarketSwap ... Liquidation)*)
(* and the word at index 3 to the swap type (...0000 to ...0002); no two   *)
(* selector words share a variant; any other word, or a missing one, gives *)
(* an absent field, and no decode aborts on a selector word: a decode that *)
(* overflows no index returns its record.                                  *)
(***************************************************************************)
C6_SelectorResolution ==
    pc \in {"decoded", "panicked"} =>
       /\ SelectorsOneToOne
       /\ ~outcome.overflowed => IsSome(outcome.order)
       /\ IsSome(outcome.order) =>
             \A w \in {split(event.data)} :
                /\ Record.order_type =
                      IF Len(w) > 2 THEN VariantOf(w[3], OrderTypeVariants) ELSE None
                /\ Record.decrease_position_swap_type =
                      IF Len(w) > 3 THEN VariantOf(w[4], SwapTypeVariants) ELSE None

\* ...0007 at index 2 decodes to Liquidation, and ...0008 at index 3, which
\* no variant is bound to, decodes to an absent swap type.
C6_Witness ==
    /\ pc = "decoded"
    /\ Record.order_type = Some("Liquidation")
    /\ Record.decrease_position_swap_type = None
    /\ \E w \in {split(event.data)} : Len(w) > 3 /\ w[4] = Selector("8")

(***************************************************************************)
(* C7.  Boolean decode policy: is_long is read at index 26 + L and         *)
(* is_frozen at 27 + L (L the declared length).  When a word exists at     *)
(* that index the field is present: false for the all-zero word, true for  *)
(* the word encoding 1, false for any other word.  The field is absent     *)
(* only when no word exists at its index.                                  *)
(***************************************************************************)
BoolPolicy(field, at, w) ==
    /\ (~at.overflow /\ LessThanNat(at.val, Len(w))) =>
          /\ IsSome(outcome.order)
          /\ IsSome(field)
          /\ \A v \in {w[ToNat(at.val) + 1]} :
                /\ v = ZeroPad(<<>>) => Unwrap(field) = FALSE
                /\ v = ZeroPad(<<"1">>) => Unwrap(field) = TRUE
                /\ v \notin {ZeroPad(<<>>), ZeroPad(<<"1">>)} => Unwrap(field) = FALSE
    /\ (IsSome(outcome.order) /\ field = None) =>
          (at.overflow \/ ~LessThanNat(at.val, Len(w)))

C7_BooleanPolicy ==
    pc \in {"decoded", "panicked"} =>
       \A w \in {split(event.data)} :
          /\ BoolPolicy(IF IsSome(outcome.order) THEN Record.is_long ELSE None,
                        suffix_index(26, outcome.len), w)
          /\ BoolPolicy(IF IsSome(outcome.order) THEN Record.is_frozen ELSE None,
                        suffix_index(27, outcome.len), w)

\* is_long decoded from a word that is neither selector, and no word left
\* for is_frozen.
C7_Witness ==
    /\ pc = "decoded"
    /\ Record.is_long = Some(FALSE)
    /\ Record.is_frozen = None
    /\ \E w \in {split(event.data)} :
          /\ LessThanNat(outcome.len, 3)
          /\ Len(w) = 27 + ToNat(outcome.len)
          /\ w[Len(w)] = ZeroPad(<<"g", "h">>)

(***************************************************************************)
(* C9.  Persistence failure handling: a call of Order::insert executes     *)
(* exactly one statement on the sink, whose parameters are the record's    *)
(* columns; what the sink answers is what the caller gets (Ok on success,  *)
(* the sink's error on a rejection); nothing is executed a second time;    *)
(* and the record is the same after the call as before.                    *)
(***************************************************************************)
C9_InsertOnce ==
    [][pc = "decoded" =>
          /\ Len(executed') = Len(executed) + 1
          /\ executed'[Len(executed')].row = insert_row(Record)
          /\ returned'.ok = (executed'[Len(executed')].reply = "ok")
          /\ ~returned'.ok => returned'.err = executed'[Len(executed')].reply
          /\ outcome' = outcome
          /\ event' = event]_vars

\* The sink rejected the one statement and the caller got the rejection.
C9_Witness ==
    /\ pc = "inserted"
    /\ Len(executed) = 1
    /\ executed[1].reply = "unique_violation"
    /\ returned = [ok |-> FALSE, err |-> "unique_violation"]
    /\ IsSome(outcome.order)

====
